---- MODULE Spec2Model ----
(***************************************************************************)
(* A model of nartool (src/nartool/store.py, src/nartool/cli.py): the      *)
(* narinfo record and its text encoding, the closure walk over a NAR       *)
(* store, the orphan scans, and the probing of and fetching from caches.   *)
(*                                                                         *)
(* Strings are TLA+ strings, cut and joined character by character as the  *)
(* Python code does.  An optional value is <<>> (None) or <<v>>.           *)
(***************************************************************************)
EXTENDS Integers, Sequences, FiniteSets, TLC

VARIABLES
    narinfo_files,  \* the store directory: identifier -> <<>> or <<NarInfo>>
    gc_pc,          \* where the closure query stands
    gc_root,        \* the identifier get_closure was called with
    gc_stack,       \* the frames of the recursive get_closure calls
    narinfo_dict,   \* the Closure being built: a sequence of [key, value]
    gc_steps,       \* steps the walk has taken
    missing,        \* what get_missing_refs returned: [raised, refs]
    ni_pc,          \* where the round trip of a record stands
    ni_rec,         \* a NarInfo object
    ni_text,        \* what its to_str returned
    ni_parsed,      \* what NarInfo(text) made of it: [raised, info]
    nar_files,      \* the store directory below its root: path -> entry
    by_hash,        \* NarStore.by_hash: None or <<Closure>>
    by_url,         \* NarStore.by_url: None or <<URL -> identifiers>>
    orphans,        \* what each orphan scan returned last
    caches,         \* the cache endpoints, in the order of cache_urls
    op,             \* the cache operation running: its name and arguments
    op_pc,          \* where it stands
    op_i,           \* the index of the identifier it works on
    op_j,           \* the index of the cache it tries next
    found,          \* fetch_from_cache's flag for the identifier
    available,      \* the list find_cached_hashes builds
    not_found,      \* the identifiers fetch_from_cache warned about
    contacts,       \* every attempt made against an endpoint, in order
    closure_arg,    \* a Closure in memory: the argument of a call
    closure_files,  \* what get_closure_files returned: None or <<list>>
    size_old,       \* recompress_nar's total of the sizes before
    size_new,       \* recompress_nar's total of the sizes after
    copy_counter,   \* nix_copy's counter
    copied,         \* the identifiers nix_copy wrote a record for, in order
    output,         \* the output file of nixcopy: None or <<lines>>
    returned,       \* what the operations that returned have returned
    nops,           \* operations started so far
    wr_pc,          \* where a write_narinfo stands
    wr_file,        \* the record file it writes: None or <<text>>
    wr_prev,        \* that file before the write
    wr_text,        \* the text it writes
    observed        \* what readers of that file have read

closureVars == <<narinfo_files, gc_pc, gc_root, gc_stack, narinfo_dict, gc_steps, missing>>

codecVars == <<ni_pc, ni_rec, ni_text, ni_parsed>>

indexVars == <<nar_files, by_hash, by_url, orphans>>

cacheVars == <<caches, op, op_pc, op_i, op_j, found, available, not_found, contacts>>

queryVars == <<gc_pc, gc_root, gc_stack, narinfo_dict, gc_steps, missing>>

txVars == <<closure_arg, closure_files, size_old, size_new, copy_counter, copied, output, returned, nops>>

writeVars == <<wr_pc, wr_file, wr_prev, wr_text, observed>>

vars == <<closureVars, codecVars, indexVars, cacheVars, txVars, writeVars>>

\* what the closure queries leave alone
notClosureVars == <<codecVars, indexVars, cacheVars, txVars, writeVars>>

\* what the record codec leaves alone
notCodecVars == <<closureVars, indexVars, cacheVars, txVars, writeVars>>

\* what the scans of the store leave alone, the record files apart
notIndexVars == <<queryVars, codecVars, cacheVars, txVars, writeVars>>

\* what the cache operations leave alone, the files of the store apart
notCacheVars == <<queryVars, codecVars, by_hash, by_url, orphans, txVars, writeVars>>

-----------------------------------------------------------------------------
(* Bounds of the model *)

\* references held by all the records of a store together, and by one
\* record of the codec's round trip
MaxTotalRefs == 2

\* signatures of one record
MaxSigs == 2

\* reads of a record file while it is written
MaxReads == 2

\* operations run one after the other on one store
MaxOps == 2

-----------------------------------------------------------------------------
(* Strings *)

None == <<>>

Some(v) == <<v>>

IsNone(o) == o = <<>>

Min(a, b) == IF a <= b THEN a ELSE b

RECURSIVE Rep(_, _)
Rep(c, n) == IF n = 0 THEN "" ELSE c \o Rep(c, n - 1)

Chr(s, i) == SubSeq(s, i, i)

\* the index of the last "/" of s, 0 when it has none
RECURSIVE LastSlash(_, _)
LastSlash(s, i) ==
    IF i = 0 THEN 0
    ELSE IF Chr(s, i) = "/" THEN i
    ELSE LastSlash(s, i - 1)

basename(name) == SubSeq(name, LastSlash(name, Len(name)) + 1, Len(name))

SeqToSet(s) == {s[i] : i \in 1..Len(s)}

-----------------------------------------------------------------------------
(* Identifiers *)

hash_len == 32

NixAlphabet ==
    {"0", "1", "2", "3", "4", "5", "6", "7", "8", "9",
     "a", "b", "c", "d", "f", "g", "h", "i", "j", "k", "l", "m", "n",
     "p", "q", "r", "s", "v", "w", "x", "y", "z"}

\* re.match anchors at the start only: the first 32 characters decide
nix_hash_is_valid(hash) ==
    /\ Len(hash) >= hash_len
    /\ \A i \in 1..hash_len : Chr(hash, i) \in NixAlphabet

hash_from_name_untruncated(name) ==
    [ok |-> Len(name) >= hash_len, hash |-> basename(name)]

\* ok is the assert on the length of the whole name; hash is the slice
hash_from_name(name) ==
    [ok   |-> Len(name) >= hash_len,
     hash |-> SubSeq(basename(name), 1, Min(hash_len, Len(basename(name))))]

HashA == Rep("a", hash_len)

HashB == Rep("b", hash_len)

HashC == Rep("c", hash_len)

Hashes == {HashA, HashB, HashC}

\* the names a References line of the model may hold: a store path name, a
\* bare identifier, a full store path, and a token too short to hold one
NameA == HashA \o "-x"

NameB == HashB

NameC == "/nix/store/" \o HashC \o "-x"

ShortName == "short"

RefNames == {NameA, NameB, NameC, ShortName}

-----------------------------------------------------------------------------
(* NarInfo and Closure *)

MkInfo(url, refs) ==
    [StorePath |-> Some("/nix/store/p"), URL |-> Some(url),
     NarHash |-> Some("sha256:n"), NarSize |-> Some(7),
     Sig |-> <<>>, References |-> refs, Compression |-> Some("none"),
     FileHash |-> None, FileSize |-> None, Deriver |-> None,
     System |-> None, CA |-> None]

Keys(closure) == {closure[i].key : i \in 1..Len(closure)}

KeyIndex(closure, key) == CHOOSE i \in 1..Len(closure) : closure[i].key = key

\* Closure.__setitem__: raises on a key that is no identifier, else sets
\* the entry, a new key going to the end
Closure_setitem(closure, key, value) ==
    IF ~nix_hash_is_valid(key)
    THEN [raised |-> TRUE, closure |-> closure]
    ELSE [raised |-> FALSE,
          closure |-> IF key \in Keys(closure)
                      THEN [closure EXCEPT ![KeyIndex(closure, key)].value = value]
                      ELSE Append(closure, [key |-> key, value |-> value])]

\* read_narinfo: the record of the file <hash>.narinfo, None when open fails
read_narinfo(hash) ==
    IF hash \in DOMAIN narinfo_files THEN narinfo_files[hash] ELSE None

-----------------------------------------------------------------------------
(* NarStore.get_closure, one frame per call; a frame is [hash, i], i = 0    *)
(* before the body ran, else the index of the next reference of the loop   *)

GcEntryNoVisitedCheck(closure, hash) ==
    IF IsNone(read_narinfo(hash)) THEN "except"
    ELSE IF Closure_setitem(closure, hash, read_narinfo(hash)[1]).raised THEN "except"
    ELSE "insert"

\* lines 226-228: what the body of a call does first
GcEntry(closure, hash) ==
    IF hash \in Keys(closure) THEN "return"
    ELSE IF IsNone(read_narinfo(hash)) THEN "except"
    ELSE IF Closure_setitem(closure, hash, read_narinfo(hash)[1]).raised THEN "except"
    ELSE "insert"

Top == gc_stack[Len(gc_stack)]

Pop == SubSeq(gc_stack, 1, Len(gc_stack) - 1)

TopRefs == narinfo_dict[KeyIndex(narinfo_dict, Top.hash)].value.References

PcAfter(stack) == IF stack = <<>> THEN "done" ELSE "run"

GcStart ==
    /\ gc_pc = "idle"
    /\ gc_pc' = "run"
    /\ gc_stack' = <<[hash |-> gc_root, i |-> 0]>>
    /\ gc_steps' = gc_steps + 1
    /\ UNCHANGED <<narinfo_files, gc_root, narinfo_dict, missing>>
    /\ UNCHANGED notClosureVars

GcCall ==
    /\ gc_pc = "run"
    /\ Top.i = 0
    /\ IF GcEntry(narinfo_dict, Top.hash) = "insert"
       THEN /\ narinfo_dict' =
                   Closure_setitem(narinfo_dict, Top.hash, read_narinfo(Top.hash)[1]).closure
            /\ gc_stack' = [gc_stack EXCEPT ![Len(gc_stack)].i = 1]
            /\ gc_pc' = "run"
       ELSE /\ narinfo_dict' = narinfo_dict
            /\ gc_stack' = Pop
            /\ gc_pc' = PcAfter(Pop)
    /\ gc_steps' = gc_steps + 1
    /\ UNCHANGED <<narinfo_files, gc_root, missing>>
    /\ UNCHANGED notClosureVars

GcRef ==
    /\ gc_pc = "run"
    /\ Top.i >= 1
    /\ Top.i <= Len(TopRefs)
    /\ LET ref == hash_from_name(TopRefs[Top.i])
           advanced == [gc_stack EXCEPT ![Len(gc_stack)].i = Top.i + 1]
       IN  IF ~ref.ok
           THEN \* the assert fails inside the try: the frame's loop is left
                /\ gc_stack' = Pop
                /\ gc_pc' = PcAfter(Pop)
           ELSE IF ref.hash = Top.hash
           THEN /\ gc_stack' = advanced
                /\ gc_pc' = "run"
           ELSE /\ gc_stack' = Append(advanced, [hash |-> ref.hash, i |-> 0])
                /\ gc_pc' = "run"
    /\ gc_steps' = gc_steps + 1
    /\ UNCHANGED <<narinfo_files, gc_root, narinfo_dict, missing>>
    /\ UNCHANGED notClosureVars

GcReturn ==
    /\ gc_pc = "run"
    /\ Top.i >= 1
    /\ Top.i > Len(TopRefs)
    /\ gc_stack' = Pop
    /\ gc_pc' = PcAfter(Pop)
    /\ gc_steps' = gc_steps + 1
    /\ UNCHANGED <<narinfo_files, gc_root, narinfo_dict, missing>>
    /\ UNCHANGED notClosureVars

\* get_closure_from_hashes: the readable records of the named identifiers
RECURSIVE get_closure_from_hashes(_, _)
get_closure_from_hashes(hashes, closure) ==
    IF hashes = <<>> THEN closure
    ELSE LET hash == Head(hashes)
             set == Closure_setitem(closure, hash, read_narinfo(hash)[1])
         IN  get_closure_from_hashes(Tail(hashes),
                 IF IsNone(read_narinfo(hash)) \/ set.raised THEN closure
                 ELSE set.closure)

HashOrder == <<HashA, HashB, HashC>>

ListOf(S) == SelectSeq(HashOrder, LAMBDA h : h \in S)

GcFromHashes ==
    /\ gc_pc = "idle"
    /\ \E S \in SUBSET Hashes :
          narinfo_dict' = get_closure_from_hashes(ListOf(S), <<>>)
    /\ gc_pc' = "listed"
    /\ UNCHANGED <<narinfo_files, gc_root, gc_stack, gc_steps, missing>>
    /\ UNCHANGED notClosureVars

\* the References of the records of a closure, in iteration order
RECURSIVE AllRefs(_)
AllRefs(closure) ==
    IF closure = <<>> THEN <<>>
    ELSE Head(closure).value.References \o AllRefs(Tail(closure))

\* line 247: the test is made on the reference as it is written
RefInClosure(ref, closure) == ref \in Keys(closure)

RECURSIVE MissingOf(_, _)
MissingOf(refs, closure) ==
    IF refs = <<>> THEN [raised |-> FALSE, refs |-> <<>>]
    ELSE LET rest == MissingOf(Tail(refs), closure)
             ref == hash_from_name(Head(refs))
         IN  IF RefInClosure(Head(refs), closure) THEN rest
             ELSE IF ~ref.ok \/ rest.raised THEN [raised |-> TRUE, refs |-> <<>>]
             ELSE [raised |-> FALSE, refs |-> <<ref.hash>> \o rest.refs]

get_missing_refs(closure) == MissingOf(AllRefs(closure), closure)

GetMissingRefs ==
    /\ gc_pc \in {"done", "listed"}
    /\ missing' = get_missing_refs(narinfo_dict)
    /\ gc_pc' = IF gc_pc = "done" THEN "missing_done" ELSE "missing_listed"
    /\ UNCHANGED <<narinfo_files, gc_root, gc_stack, narinfo_dict, gc_steps>>
    /\ UNCHANGED notClosureVars

-----------------------------------------------------------------------------
(* The parts of the state an operation family does not use stay as built *)

EmptyInfo ==
    [StorePath |-> None, URL |-> None, NarHash |-> None, NarSize |-> None,
     Sig |-> <<>>, References |-> <<>>, Compression |-> Some("none"),
     FileHash |-> None, FileSize |-> None, Deriver |-> None,
     System |-> None, CA |-> None]

CodecIdle ==
    /\ ni_pc = "idle"
    /\ ni_rec = EmptyInfo
    /\ ni_text = ""
    /\ ni_parsed = [raised |-> FALSE, info |-> EmptyInfo]

\* the paths of the model below the store directory
PayloadPaths == {"nar/p1", "nar/p2", "nar/p3", "alt/p1"}

\* no orphan scan has run
NoScan == [ran |-> FALSE, dir |-> "", fresh |-> TRUE, raised |-> FALSE, paths |-> <<>>]

NoOrphans == [nar |-> NoScan, narinfo |-> NoScan]

\* The content of a payload file: the identifier whose NAR it holds ("" for
\* an empty stream), the format it is in, and the endpoint it came from (0
\* when it was made in the store).
NoData == [nar |-> "", fmt |-> "none", from |-> 0]

NoEntry == [kind |-> "none", data |-> NoData]

IndexIdle ==
    /\ nar_files = [p \in PayloadPaths |-> NoEntry]
    /\ by_hash = None
    /\ by_url = None
    /\ orphans = NoOrphans

NoOp ==
    [name |-> "none", targets |-> <<>>, check_refs |-> FALSE, raises |-> FALSE,
     closure |-> <<>>]

NoCache == [url |-> "", rec |-> [h \in Hashes |-> "absent"], nar |-> "absent"]

CacheIdle ==
    /\ caches = <<NoCache, NoCache>>
    /\ op = NoOp
    /\ op_pc = "idle"
    /\ op_i = 1
    /\ op_j = 1
    /\ found = FALSE
    /\ available = <<>>
    /\ not_found = <<>>
    /\ contacts = <<>>

TxIdle ==
    /\ closure_arg = <<>>
    /\ closure_files = None
    /\ size_old = 0
    /\ size_new = 0
    /\ copy_counter = 0
    /\ copied = <<>>
    /\ output = None
    /\ returned = <<>>
    /\ nops = 0

WriteIdle ==
    /\ wr_pc = "idle"
    /\ wr_file = None
    /\ wr_prev = None
    /\ wr_text = ""
    /\ observed = <<>>

QueryIdle ==
    /\ gc_root = HashA
    /\ gc_pc = "idle"
    /\ gc_stack = <<>>
    /\ narinfo_dict = <<>>
    /\ gc_steps = 0
    /\ missing = [raised |-> FALSE, refs |-> <<>>]

ClosureIdle ==
    /\ narinfo_files = [h \in Hashes |-> None]
    /\ gc_root = HashA
    /\ gc_pc = "idle"
    /\ gc_stack = <<>>
    /\ narinfo_dict = <<>>
    /\ gc_steps = 0
    /\ missing = [raised |-> FALSE, refs |-> <<>>]

-----------------------------------------------------------------------------
(* The closure queries on every store of at most three records *)

RefSeqs == UNION {[1..k -> RefNames] : k \in 0..MaxTotalRefs}

\* a store: the records present, and one sequence of references cut in three
StoreOf(present, s, i, j) ==
    LET refs == [h \in Hashes |->
                    IF h = HashA THEN SubSeq(s, 1, i)
                    ELSE IF h = HashB THEN SubSeq(s, i + 1, j)
                    ELSE SubSeq(s, j + 1, Len(s))]
    IN  [h \in Hashes |->
            IF h \in present THEN Some(MkInfo("nar/" \o h \o ".nar", refs[h])) ELSE None]

InitClosure ==
    /\ \E present \in SUBSET Hashes, s \in RefSeqs :
          \E i \in 0..Len(s) : \E j \in i..Len(s) :
             narinfo_files = StoreOf(present, s, i, j)
    /\ gc_root \in Hashes
    /\ gc_pc = "idle"
    /\ gc_stack = <<>>
    /\ narinfo_dict = <<>>
    /\ gc_steps = 0
    /\ missing = [raised |-> FALSE, refs |-> <<>>]
    /\ CodecIdle
    /\ IndexIdle
    /\ CacheIdle
    /\ TxIdle
    /\ WriteIdle

NextClosure ==
    \/ GcStart
    \/ GcCall
    \/ GcRef
    \/ GcReturn
    \/ GcFromHashes
    \/ GetMissingRefs

SpecClosure == InitClosure /\ [][NextClosure]_vars

-----------------------------------------------------------------------------
(* What the claims about the closure queries speak of *)

\* the name under which the records of the model refer to identifier h
RefNameOf(h) == IF h = HashA THEN NameA ELSE IF h = HashB THEN NameB ELSE NameC

Readable(h) == ~IsNone(narinfo_files[h])

RefsOf(h) == narinfo_files[h][1].References

TotalRefs ==
    LET len(h) == IF Readable(h) THEN Len(RefsOf(h)) ELSE 0
    IN  len(HashA) + len(HashB) + len(HashC)

\* the readable identifiers a readable record x refers to
Succ(x) == {y \in Hashes : Readable(y) /\ RefNameOf(y) \in SeqToSet(RefsOf(x))}

RECURSIVE ReachFrom(_)
ReachFrom(S) ==
    LET T == S \cup UNION {Succ(x) : x \in S}
    IN  IF T = S THEN S ELSE ReachFrom(T)

Reachable(root) == IF Readable(root) THEN ReachFrom({root}) ELSE {}

\* x and y refer to each other and to nothing else
CycleAB(x, y) ==
    /\ x # y /\ Readable(x) /\ Readable(y)
    /\ RefNameOf(y) \in SeqToSet(RefsOf(x))
    /\ RefNameOf(x) \in SeqToSet(RefsOf(y))
    /\ SeqToSet(RefsOf(x)) \cup SeqToSet(RefsOf(y)) \subseteq {RefNameOf(x), RefNameOf(y)}

\* C1: get_closure terminates on every store, cycles and self-loops
\* included: every step of the walk counts towards a bound that the store
\* fixes (three steps for the root and three for each reference held by a
\* record), and as long as the walk has not returned a step is possible;
\* and when the root and one other record refer to each other and to
\* nothing else, the closure returned has exactly these two keys.
C1_ClosureTerminates ==
    /\ gc_steps <= 3 + 3 * TotalRefs
    /\ gc_pc = "run" => gc_stack # <<>> /\ ENABLED (GcCall \/ GcRef \/ GcReturn)
    /\ \A y \in Hashes :
          gc_pc = "done" /\ CycleAB(gc_root, y) => Keys(narinfo_dict) = {gc_root, y}

C1_Witness ==
    /\ gc_pc = "done"
    /\ \E y \in Hashes : CycleAB(gc_root, y)
    /\ Len(narinfo_dict) = 2

\* C2: the key set of get_closure(root) is exactly the set of identifiers
\* with a readable record that are reachable from root through the
\* references of readable records; a reference that names no identifier
\* or no readable record stops nothing.
C2_ClosureIsReachableSet ==
    gc_pc = "done" => Keys(narinfo_dict) = Reachable(gc_root)

\* x holds the one reference y, and y has no record
C3Case(x, y) ==
    /\ x # y /\ Readable(x) /\ ~Readable(y)
    /\ RefsOf(x) = <<RefNameOf(y)>>

\* C3: when record X references Y and Y has no record file, get_closure(X)
\* raises nothing and returns the closure with the one key X, and
\* get_missing_refs of that closure returns exactly Y.
C3_MissingNodeTolerated ==
    \A y \in Hashes :
       C3Case(gc_root, y) =>
          /\ gc_pc \in {"done", "missing_done"} => Keys(narinfo_dict) = {gc_root}
          /\ gc_pc = "missing_done" => ~missing.raised /\ missing.refs = <<y>>

C3_Witness ==
    /\ gc_pc = "missing_done"
    /\ \E y \in Hashes : C3Case(gc_root, y) /\ missing.refs = <<y>>

\* the identifiers the records of a closure refer to
ReferredBy(closure) ==
    {y \in Hashes : \E i \in 1..Len(closure) :
        RefNameOf(y) \in SeqToSet(closure[i].value.References)}

\* C4: get_missing_refs yields the identifier of a reference exactly when
\* that identifier is not a key of the closure, so a closure holding the
\* records of all its references yields nothing (stated for the closures
\* on which get_missing_refs returns).
C4_MissingRefsExact ==
    gc_pc \in {"missing_done", "missing_listed"} /\ ~missing.raised =>
       SeqToSet(missing.refs) = ReferredBy(narinfo_dict) \ Keys(narinfo_dict)

-----------------------------------------------------------------------------
(* The text encoding of a NarInfo: to_str and NarInfo.__init__(text) *)

\* the first place at or after i where sep stands in s, 0 when nowhere
RECURSIVE Find(_, _, _)
Find(s, sep, i) ==
    IF i + Len(sep) - 1 > Len(s) THEN 0
    ELSE IF SubSeq(s, i, i + Len(sep) - 1) = sep THEN i
    ELSE Find(s, sep, i + 1)

\* str.split(sep)
RECURSIVE Split(_, _)
Split(s, sep) ==
    LET k == Find(s, sep, 1)
    IN  IF k = 0 THEN <<s>>
        ELSE <<SubSeq(s, 1, k - 1)>> \o Split(SubSeq(s, k + Len(sep), Len(s)), sep)

\* sep.join(list)
RECURSIVE Join(_, _)
Join(list, sep) ==
    IF list = <<>> THEN ""
    ELSE IF Len(list) = 1 THEN list[1]
    ELSE list[1] \o sep \o Join(Tail(list), sep)

Whitespace == {" ", "\t", "\r", "\n", "\f"}

\* str.strip()
RECURSIVE strip(_)
strip(s) ==
    IF s = "" THEN s
    ELSE IF Chr(s, 1) \in Whitespace THEN strip(SubSeq(s, 2, Len(s)))
    ELSE IF Chr(s, Len(s)) \in Whitespace THEN strip(SubSeq(s, 1, Len(s) - 1))
    ELSE s

Digit(d) == Chr("0123456789", d + 1)

\* str(n) of an int n >= 0
RECURSIVE IntToStr(_)
IntToStr(n) == IF n < 10 THEN Digit(n) ELSE IntToStr(n \div 10) \o Digit(n % 10)

IsDecimal(s) == s # "" /\ \A i \in 1..Len(s) : \E d \in 0..9 : Chr(s, i) = Digit(d)

\* int(s) of a decimal s
RECURSIVE StrToInt(_)
StrToInt(s) ==
    IF s = "" THEN 0
    ELSE 10 * StrToInt(SubSeq(s, 1, Len(s) - 1))
         + (CHOOSE d \in 0..9 : Chr(s, Len(s)) = Digit(d))

\* dir(self) without the dunder and to_ names: the attributes by name
FieldOrder ==
    <<"CA", "Compression", "Deriver", "FileHash", "FileSize", "NarHash",
      "NarSize", "References", "Sig", "StorePath", "System", "URL">>

ListFields == {"Sig", "References"}

IntFields == {"FileSize", "NarSize"}

\* lines 88-93: the value of a field as to_str writes it, None for no line
FieldValue(info, field) ==
    IF field \in ListFields
    THEN IF info[field] = <<>> THEN None ELSE Some(Join(info[field], " "))
    ELSE IF IsNone(info[field]) THEN None
    ELSE IF field \in IntFields THEN Some(IntToStr(info[field][1]))
    ELSE info[field]

RECURSIVE ToStrFrom(_, _)
ToStrFrom(info, fields) ==
    IF fields = <<>> THEN ""
    ELSE LET value == FieldValue(info, Head(fields))
         IN  (IF IsNone(value) THEN ""
              ELSE Head(fields) \o ": " \o value[1] \o "\n")
             \o ToStrFrom(info, Tail(fields))

to_str(info) == ToStrFrom(info, FieldOrder)

\* the last element of a References list dropped when it is empty
DropEmptyLast(list) ==
    IF Len(list) > 0 /\ Len(list[Len(list)]) = 0
    THEN SubSeq(list, 1, Len(list) - 1)
    ELSE list

\* lines 68-82: a line that split in two.  A key outside the twelve fields
\* would become an attribute of its own; to_str writes no such key.
SetField(info, key, value) ==
    IF key \in IntFields
    THEN IF IsDecimal(value)
         THEN [raised |-> FALSE, info |-> [info EXCEPT ![key] = Some(StrToInt(value))]]
         ELSE [raised |-> TRUE, info |-> info]
    ELSE IF key = "Sig"
    THEN [raised |-> FALSE, info |-> [info EXCEPT !.Sig = Append(@, value)]]
    ELSE IF key = "References"
    THEN [raised |-> FALSE,
          info |-> [info EXCEPT !.References = DropEmptyLast(Split(value, " "))]]
    ELSE IF key \in DOMAIN info
    THEN [raised |-> FALSE, info |-> [info EXCEPT ![key] = Some(value)]]
    ELSE [raised |-> FALSE, info |-> info]

\* lines 67-68: one line of the text
ParseLine(info, line) ==
    CHOOSE r \in {IF Len(kv) # 2 THEN [raised |-> FALSE, info |-> info]
                  ELSE SetField(info, kv[1], strip(kv[2])) : kv \in {Split(line, ": ")}} : TRUE

RECURSIVE ParseLines(_, _)
ParseLines(info, lines) ==
    IF lines = <<>> THEN [raised |-> FALSE, info |-> info]
    ELSE LET one == ParseLine(info, Head(lines))
         IN  IF one.raised THEN one ELSE ParseLines(one.info, Tail(lines))

\* NarInfo(text)
NarInfo(text) == ParseLines(EmptyInfo, Split(text, "\n"))

ToStr ==
    /\ ni_pc = "object"
    /\ ni_text' = to_str(ni_rec)
    /\ ni_pc' = "text"
    /\ UNCHANGED <<ni_rec, ni_parsed>>
    /\ UNCHANGED notCodecVars

Parse ==
    /\ ni_pc = "text"
    /\ ni_parsed' = NarInfo(ni_text)
    /\ ni_pc' = "parsed"
    /\ UNCHANGED <<ni_rec, ni_text>>
    /\ UNCHANGED notCodecVars

\* the well-formed records of the model
SigValues == {"key-1:s", "key-2:t"}

SeqsUpTo(S, n) == UNION {[1..k -> S] : k \in 0..n}

Optional(S) == {None} \cup {Some(v) : v \in S}

WellFormed ==
    {[StorePath |-> Some("/nix/store/" \o NameA), URL |-> Some(t.url),
      NarHash |-> Some("sha256:n"), NarSize |-> Some(size),
      Sig |-> sigs, References |-> refs, Compression |-> Some(t.compression),
      FileHash |-> t.hash, FileSize |-> t.size, Deriver |-> deriver,
      System |-> system, CA |-> ca] :
        t \in {[url |-> "nar/n.nar", compression |-> "none", hash |-> None, size |-> None],
               [url |-> "nar/f.nar.xz", compression |-> "xz",
                hash |-> Some("sha256:f"), size |-> Some(96)]},
        size \in {7, 120},
        sigs \in SeqsUpTo(SigValues, MaxSigs),
        refs \in SeqsUpTo({NameA, NameB}, MaxTotalRefs),
        deriver \in Optional({"/nix/store/d.drv"}),
        system \in Optional({"x86_64-linux"}),
        ca \in Optional({"fixed:r:sha256:c"})}

InitCodec ==
    /\ ni_pc = "object"
    /\ ni_rec \in WellFormed
    /\ ni_text = ""
    /\ ni_parsed = [raised |-> FALSE, info |-> EmptyInfo]
    /\ ClosureIdle
    /\ IndexIdle
    /\ CacheIdle
    /\ TxIdle
    /\ WriteIdle

NextCodec ==
    \/ ToStr
    \/ Parse

SpecCodec == InitCodec /\ [][NextCodec]_vars

\* C5: for every well-formed record r, NarInfo(r.to_str()) is equal to r
\* field for field (an empty list is an empty list on both sides).
C5_RoundTrip ==
    ni_pc = "parsed" => ~ni_parsed.raised /\ ni_parsed.info = ni_rec

\* the lines the claimed encoding has for a record
Line(key, value) == key \o ": " \o value \o "\n"

ScalarLine(info, field) ==
    IF IsNone(info[field]) THEN ""
    ELSE Line(field, IF field \in IntFields THEN IntToStr(info[field][1]) ELSE info[field][1])

RECURSIVE SigLines(_)
SigLines(sigs) == IF sigs = <<>> THEN "" ELSE Line("Sig", Head(sigs)) \o SigLines(Tail(sigs))

ClaimedText(info) ==
    ScalarLine(info, "StorePath") \o ScalarLine(info, "URL")
    \o ScalarLine(info, "NarHash") \o ScalarLine(info, "NarSize")
    \o ScalarLine(info, "Compression") \o ScalarLine(info, "FileHash")
    \o ScalarLine(info, "FileSize") \o ScalarLine(info, "Deriver")
    \o ScalarLine(info, "System") \o ScalarLine(info, "CA")
    \o SigLines(info.Sig)
    \o (IF info.References = <<>> THEN ""
        ELSE Line("References", Join(info.References, " ")))

\* C6: to_str writes the non-empty fields in the order StorePath, URL,
\* NarHash, NarSize, Compression, FileHash, FileSize, Deriver, System, CA,
\* then one Sig line for each signature, then one References line of the
\* names joined by spaces; an empty or absent field has no line.
C6_FieldOrder ==
    ni_pc \in {"text", "parsed"} => ni_text = ClaimedText(ni_rec)

-----------------------------------------------------------------------------
(* The scans of the store: get_store and the two orphan queries *)

store_dir == "/store"

\* os.path.join of two relative parts
PathJoin(a, b) == a \o "/" \o b

isfile(path) == path \in DOMAIN nar_files /\ nar_files[path].kind = "file"

\* os.listdir(store_dir/nar_dir): the names of the entries of that directory
ListDir(nar_dir) ==
    {basename(p) : p \in {q \in DOMAIN nar_files :
        nar_files[q].kind # "none" /\ q = PathJoin(nar_dir, basename(q))}}

\* the orders in which a listing may come
Orderings(S) ==
    {o \in [1..Cardinality(S) -> S] : \A i, j \in 1..Cardinality(S) : o[i] = o[j] => i = j}

RecordFiles == {h \in Hashes : ~IsNone(narinfo_files[h])}

\* lines 282-285: one more record for the URL index
AddUrl(index, url, hash) ==
    IF url \in DOMAIN index
    THEN [index EXCEPT ![url] = Append(@, hash)]
    ELSE [u \in DOMAIN index \cup {url} |-> IF u = url THEN <<hash>> ELSE index[u]]

\* the loop of get_store over the record files in the order listed; a
\* record without URL raises at ni.URL
RECURSIVE GetStoreFrom(_, _, _)
GetStoreFrom(order, closure, index) ==
    IF order = <<>> THEN [raised |-> FALSE, by_hash |-> closure, by_url |-> index]
    ELSE LET hash == hash_from_name(PathJoin(store_dir, Head(order) \o ".narinfo")).hash
             ni == read_narinfo(hash)
             set == Closure_setitem(closure, hash, ni[1])
         IN  IF IsNone(ni) \/ set.raised \/ IsNone(ni[1].URL)
             THEN [raised |-> TRUE, by_hash |-> closure, by_url |-> index]
             ELSE GetStoreFrom(Tail(order), set.closure, AddUrl(index, ni[1].URL[1], hash))

get_store(order) == GetStoreFrom(order, <<>>, <<>>)

\* get_store as a call of its own (the commands get, drvs and cache)
GetStore ==
    /\ \E order \in Orderings(RecordFiles) :
          LET got == get_store(order)
          IN  /\ ~got.raised
              /\ by_hash' = Some(got.by_hash)
              /\ by_url' = Some(got.by_url)
    /\ UNCHANGED <<narinfo_files, nar_files, orphans>>
    /\ UNCHANGED notIndexVars

\* the same listing without the test at line 375
RECURSIVE OrphanedNarFromNoIsfile(_, _, _)
OrphanedNarFromNoIsfile(names, nar_dir, index) ==
    IF names = <<>> THEN <<>>
    ELSE (IF PathJoin(nar_dir, Head(names)) \notin DOMAIN index
          THEN <<PathJoin(PathJoin(store_dir, nar_dir), Head(names))>> ELSE <<>>)
         \o OrphanedNarFromNoIsfile(Tail(names), nar_dir, index)

\* lines 373-379: the files of the listing that no URL of the index names
RECURSIVE OrphanedNarFrom(_, _, _)
OrphanedNarFrom(names, nar_dir, index) ==
    IF names = <<>> THEN <<>>
    ELSE LET fpath == PathJoin(PathJoin(store_dir, nar_dir), Head(names))
             url == PathJoin(nar_dir, Head(names))
         IN  (IF isfile(url) /\ url \notin DOMAIN index THEN <<fpath>> ELSE <<>>)
             \o OrphanedNarFrom(Tail(names), nar_dir, index)

\* lines 366-381: the index is built when the store has none yet
find_orphaned_nar_files(nar_dir) ==
    /\ \E order \in Orderings(RecordFiles), names \in Orderings(ListDir(nar_dir)) :
       \E got \in {get_store(order)} :
          LET build == IsNone(by_hash) \/ IsNone(by_url)
              index == IF build THEN got.by_url ELSE by_url[1]
              scan == [ran |-> TRUE, dir |-> nar_dir, fresh |-> build,
                       raised |-> FALSE, paths |-> <<>>]
          IN  IF build /\ got.raised
              THEN /\ orphans' = [orphans EXCEPT !.nar = [scan EXCEPT !.raised = TRUE]]
                   /\ UNCHANGED <<by_hash, by_url>>
              ELSE /\ orphans' = [orphans EXCEPT !.nar =
                         [scan EXCEPT !.paths = OrphanedNarFrom(names, nar_dir, index)]]
                   /\ by_hash' = IF build THEN Some(got.by_hash) ELSE by_hash
                   /\ by_url' = IF build THEN Some(got.by_url) ELSE by_url
    /\ UNCHANGED <<narinfo_files, nar_files>>

\* find_orphaned_nar_files as the only operation on the store
FindOrphanedNarFiles(nar_dir) ==
    /\ find_orphaned_nar_files(nar_dir)
    /\ UNCHANGED notIndexVars

\* lines 393-397: the record files of a closure whose payload is no file
RECURSIVE OrphanedNarinfoFrom(_)
OrphanedNarinfoFrom(closure) ==
    IF closure = <<>> THEN <<>>
    ELSE (IF ~isfile(Head(closure).value.URL[1])
          THEN <<PathJoin(store_dir, Head(closure).key \o ".narinfo")>>
          ELSE <<>>)
         \o OrphanedNarinfoFrom(Tail(closure))

\* find_orphaned_narinfo_files(): the closure is the whole store, read anew
FindOrphanedNarinfoFiles ==
    /\ \E order \in Orderings(RecordFiles) :
       \E got \in {get_store(order)} :
          LET scan == [ran |-> TRUE, dir |-> "", fresh |-> TRUE,
                       raised |-> FALSE, paths |-> <<>>]
          IN  IF got.raised
              THEN /\ orphans' = [orphans EXCEPT !.narinfo = [scan EXCEPT !.raised = TRUE]]
                   /\ UNCHANGED <<by_hash, by_url>>
              ELSE /\ orphans' = [orphans EXCEPT !.narinfo =
                         [scan EXCEPT !.paths = OrphanedNarinfoFrom(got.by_hash)]]
                   /\ by_hash' = Some(got.by_hash)
                   /\ by_url' = Some(got.by_url)
    /\ UNCHANGED <<narinfo_files, nar_files>>
    /\ UNCHANGED notIndexVars

\* the stores of the model: two records at most, each naming one path, and
\* every path a file or nothing, one of them possibly a directory
InitIndex ==
    /\ \E urls \in [{HashA, HashB} -> Optional(PayloadPaths)] :
          narinfo_files = [h \in Hashes |->
              IF h = HashC \/ IsNone(urls[h]) THEN None
              ELSE Some(MkInfo(urls[h][1], <<>>))]
    /\ nar_files \in [PayloadPaths -> {NoEntry, [kind |-> "file", data |-> NoData],
                                        [kind |-> "dir", data |-> NoData]}]
    /\ \A p \in PayloadPaths : nar_files[p].kind = "dir" => p = "nar/p3"
    /\ by_hash = None
    /\ by_url = None
    /\ orphans = NoOrphans
    /\ QueryIdle
    /\ CodecIdle
    /\ CacheIdle
    /\ TxIdle
    /\ WriteIdle

NextIndex ==
    \/ GetStore
    \/ \E nar_dir \in {"nar", "alt"} : FindOrphanedNarFiles(nar_dir)
    \/ FindOrphanedNarinfoFiles

SpecIndex == InitIndex /\ [][NextIndex]_vars

\* the URLs the records on disk name
UrlsOnDisk == {narinfo_files[h][1].URL[1] : h \in RecordFiles}

\* C7: on a freshly opened store find_orphaned_nar_files returns exactly
\* the files of the payload directory whose relative path is the URL of no
\* record, and find_orphaned_narinfo_files exactly the record files of the
\* records whose payload is no file; with records A -> p1, B -> p2 and the
\* payload files p1 and p3 that is p3 and B's record file.
C7_OrphansExact ==
    /\ orphans.nar.ran /\ orphans.nar.fresh =>
          /\ ~orphans.nar.raised
          /\ SeqToSet(orphans.nar.paths) =
                {PathJoin(store_dir, p) : p \in {q \in PayloadPaths :
                    /\ nar_files[q].kind = "file"
                    /\ q = PathJoin(orphans.nar.dir, basename(q))
                    /\ q \notin UrlsOnDisk}}
          /\ Len(orphans.nar.paths) = Cardinality(SeqToSet(orphans.nar.paths))
    /\ orphans.narinfo.ran =>
          /\ ~orphans.narinfo.raised
          /\ SeqToSet(orphans.narinfo.paths) =
                {PathJoin(store_dir, h \o ".narinfo") : h \in {k \in RecordFiles :
                    nar_files[narinfo_files[k][1].URL[1]].kind # "file"}}
          /\ Len(orphans.narinfo.paths) = Cardinality(SeqToSet(orphans.narinfo.paths))

\* the store of the claim's example
C7Example ==
    /\ narinfo_files[HashA] = Some(MkInfo("nar/p1", <<>>))
    /\ narinfo_files[HashB] = Some(MkInfo("nar/p2", <<>>))
    /\ {p \in PayloadPaths : nar_files[p].kind = "file"} = {"nar/p1", "nar/p3"}

\* both scans have run on the store of the example
C7_Witness ==
    /\ C7Example
    /\ orphans.nar.ran /\ orphans.nar.fresh /\ orphans.nar.dir = "nar"
    /\ orphans.nar.paths = <<"/store/nar/p3">>
    /\ orphans.narinfo.ran
    /\ orphans.narinfo.paths = <<"/store/" \o HashB \o ".narinfo">>

-----------------------------------------------------------------------------
(* The caches: find_cached_hashes and fetch_from_cache, one action for     *)
(* each attempt against an endpoint                                        *)

\* An endpoint is [url, rec, nar].  rec[h] says what the endpoint holds as
\* the record of h: "absent" (no file, a status other than 200), "error"
\* (the request raises or times out), "good" (a record), "nourl" (an
\* empty text).  nar says what a request for a payload gives.
IsLocal(url) == Chr(url, 1) = "/"

NarinfoUrl(cache, hash) == cache.url \o "/" \o hash \o ".narinfo"

PayloadUrlOf(h) == IF h = HashA THEN "nar/p1" ELSE IF h = HashB THEN "nar/p2" ELSE "nar/p3"

\* the text endpoint j holds as the record of h
RecordText(j, h, state) ==
    IF state = "good"
    THEN Line("StorePath", "/nix/store/" \o h \o "-x") \o Line("URL", PayloadUrlOf(h))
         \o Line("Compression", "xz") \o Line("FileHash", "sha256:f")
         \o Line("FileSize", "96") \o Line("NarHash", "sha256:n")
         \o Line("NarSize", "120") \o Line("Sig", "cache" \o IntToStr(j) \o ":s")
    ELSE ""

NextCacheNoReturn(j, success) == j + 1

\* check_caches: 0 for the return at the first success, else the next cache
NextCache(j, success) == IF success THEN 0 ELSE j + 1

\* lines 410-419: whether the attempt on the record of hash succeeds
ProbeSucceeds(cache, hash) ==
    IF IsLocal(NarinfoUrl(cache, hash))
    THEN cache.rec[hash] # "absent"
    ELSE cache.rec[hash] \notin {"absent", "error"}

\* lines 434-438: the identifiers of the references to probe, up to the
\* reference on which hash_from_name raises
RECURSIVE RefTargets(_, _)
RefTargets(refs, closure) ==
    IF refs = <<>> THEN [raises |-> FALSE, targets |-> <<>>]
    ELSE LET ref == hash_from_name(Head(refs))
             rest == RefTargets(Tail(refs), closure)
         IN  IF ~ref.ok THEN [raises |-> TRUE, targets |-> <<>>]
             ELSE [raises |-> rest.raises,
                   targets |-> (IF ref.hash \in Keys(closure) THEN <<>> ELSE <<ref.hash>>)
                               \o rest.targets]

\* the identifiers find_cached_hashes probes, in order
ProbeTargets(closure, check_refs) ==
    IF check_refs THEN RefTargets(AllRefs(closure), closure)
    ELSE [raises |-> FALSE, targets |-> [i \in 1..Len(closure) |-> closure[i].key]]

Entry(h, refs) == [key |-> h, value |-> MkInfo(PayloadUrlOf(h), refs)]

\* the closures find_cached_hashes is called with
ProbeClosures ==
    {<<Entry(HashA, <<>>), Entry(HashB, <<>>)>>,
     <<Entry(HashA, <<NameB, NameC>>), Entry(HashB, <<NameC>>)>>,
     <<Entry(HashA, <<NameC, ShortName>>)>>}

\* the lists fetch_from_cache is called with
FetchBatches == {<<HashA>>, <<HashA, HashB>>, <<HashB, HashA>>}

EndPc == IF op.raises THEN "raised" ELSE "done"

ProbeStart ==
    /\ op_pc = "idle"
    /\ \E closure \in ProbeClosures, check_refs \in BOOLEAN :
          LET t == ProbeTargets(closure, check_refs)
          IN  /\ op' = [name |-> "probe", targets |-> t.targets,
                        check_refs |-> check_refs, raises |-> t.raises,
                        closure |-> closure]
              /\ op_pc' = IF t.targets # <<>> THEN "run"
                          ELSE IF t.raises THEN "raised" ELSE "done"
    /\ UNCHANGED <<caches, op_i, op_j, found, available, not_found, contacts>>
    /\ UNCHANGED <<narinfo_files, nar_files>>
    /\ UNCHANGED notCacheVars

ProbeAttempt ==
    /\ op_pc = "run"
    /\ op.name = "probe"
    /\ LET hash == op.targets[op_i]
           success == ProbeSucceeds(caches[op_j], hash)
           next == NextCache(op_j, success)
           returns == next = 0 \/ next > Len(caches)
       IN  /\ contacts' = Append(contacts,
                              [i |-> op_i, hash |-> hash, cache |-> op_j, ok |-> success])
           /\ available' = IF next = 0 THEN Append(available, hash) ELSE available
           /\ op_j' = IF returns THEN 1 ELSE next
           /\ op_i' = IF returns THEN op_i + 1 ELSE op_i
           /\ op_pc' = IF returns /\ op_i = Len(op.targets) THEN EndPc ELSE "run"
    /\ UNCHANGED <<caches, op, found, not_found>>
    /\ UNCHANGED <<narinfo_files, nar_files>>
    /\ UNCHANGED notCacheVars

\* lines 449-473: one pass of the inner loop of fetch_from_cache, on the
\* record files and the payload files of the store
FetchParsed(j, hash, files, nars, parsed) ==
    LET cache == caches[j]
        state == cache.rec[hash]
        written == [files EXCEPT ![hash] = Some(parsed.info)]
        payload == [nars EXCEPT ![parsed.info.URL[1]] =
                       [kind |-> "file", data |-> [nar |-> hash, fmt |-> "xz", from |-> j]]]
        same == [raised |-> FALSE, found |-> FALSE, files |-> files, nars |-> nars]
    IN  IF IsLocal(NarinfoUrl(cache, hash))
        THEN IF state = "absent" THEN same
             ELSE IF parsed.raised THEN [same EXCEPT !.raised = TRUE]
             ELSE IF IsNone(parsed.info.URL)
             THEN [raised |-> TRUE, found |-> FALSE, files |-> written, nars |-> nars]
             ELSE [raised |-> FALSE, found |-> TRUE, files |-> written,
                   nars |-> IF cache.nar = "ok" THEN payload ELSE nars]
        ELSE IF state \in {"absent", "error"} THEN same
             ELSE IF parsed.raised THEN [same EXCEPT !.found = TRUE]
             ELSE IF IsNone(parsed.info.URL)
             THEN [raised |-> FALSE, found |-> TRUE, files |-> written, nars |-> nars]
             ELSE [raised |-> FALSE, found |-> TRUE, files |-> written,
                   nars |-> IF cache.nar = "ok" THEN payload ELSE nars]

FetchFrom(j, hash, files, nars) ==
    CHOOSE r \in {FetchParsed(j, hash, files, nars, parsed) :
                    parsed \in {NarInfo(RecordText(j, hash, caches[j].rec[hash]))}} : TRUE

FetchStart ==
    /\ op_pc = "idle"
    /\ \E hashes \in FetchBatches :
          op' = [name |-> "fetch", targets |-> hashes, check_refs |-> FALSE,
                 raises |-> FALSE, closure |-> <<>>]
    /\ op_pc' = "run"
    /\ found' = FALSE
    /\ UNCHANGED <<caches, op_i, op_j, available, not_found, contacts>>
    /\ UNCHANGED <<narinfo_files, nar_files>>
    /\ UNCHANGED notCacheVars

FetchAttempt ==
    /\ op_pc = "run"
    /\ op.name = "fetch"
    /\ \E got \in {FetchFrom(op_j, op.targets[op_i], narinfo_files, nar_files)} :
       LET hash == op.targets[op_i]
           last == op_j = Len(caches)
       IN  /\ contacts' = Append(contacts,
                              [i |-> op_i, hash |-> hash, cache |-> op_j, ok |-> got.found])
           /\ narinfo_files' = got.files
           /\ nar_files' = got.nars
           /\ IF got.raised
              THEN /\ op_pc' = "raised"
                   /\ UNCHANGED <<op_i, op_j, found, not_found>>
              ELSE /\ not_found' = IF last /\ ~(found \/ got.found)
                                    THEN Append(not_found, hash) ELSE not_found
                   /\ found' = IF last THEN FALSE ELSE found \/ got.found
                   /\ op_j' = IF last THEN 1 ELSE op_j + 1
                   /\ op_i' = IF last THEN op_i + 1 ELSE op_i
                   /\ op_pc' = IF last /\ op_i = Len(op.targets) THEN "done" ELSE "run"
    /\ UNCHANGED <<caches, op, available>>
    /\ UNCHANGED notCacheVars

\* the endpoints of the model: a local mirror or an HTTP cache each
CacheUrls == <<{"/mirror1", "https://cache1"}, {"/mirror2", "https://cache2"}>>

Endpoints(j) ==
    {c \in [url : CacheUrls[j],
            rec : [Hashes -> {"absent", "error", "good", "nourl"}],
            nar : {"absent", "error", "ok"}] :
        /\ IsLocal(c.url) => c.nar # "error" /\ \A h \in Hashes : c.rec[h] # "error"
        /\ c.rec[HashB] \in {"absent", "good"}
        /\ c.rec[HashC] \in {"absent", "good"}
        /\ j = 1 => c.rec[HashC] = "absent"}

InitCache ==
    /\ caches \in {<<c1, c2>> : c1 \in Endpoints(1), c2 \in Endpoints(2)}
    /\ op = NoOp
    /\ op_pc = "idle"
    /\ op_i = 1
    /\ op_j = 1
    /\ found = FALSE
    /\ available = <<>>
    /\ not_found = <<>>
    /\ contacts = <<>>
    /\ narinfo_files = [h \in Hashes |-> None]
    /\ IndexIdle
    /\ QueryIdle
    /\ CodecIdle
    /\ TxIdle
    /\ WriteIdle

NextCacheOps ==
    \/ ProbeStart
    \/ ProbeAttempt
    \/ FetchStart
    \/ FetchAttempt

SpecCache == InitCache /\ [][NextCacheOps]_vars

\* whether endpoint j holds a record of h that a request for it returns
Has(j, h) == caches[j].rec[h] \in {"good", "nourl"}

\* the contacts are in the order of the batch and of the endpoint list, and
\* an identifier is left at the first contact that yields it
StopsAtFirstYield ==
    \A k \in 1..Len(contacts) :
       LET c == contacts[k]
       IN  /\ c.hash = op.targets[c.i]
           /\ c.ok = Has(c.cache, c.hash)
           /\ IF k = 1 THEN c.i = 1 /\ c.cache = 1
              ELSE LET prev == contacts[k - 1]
                   IN  IF prev.ok \/ prev.cache = Len(caches)
                       THEN c.i = prev.i + 1 /\ c.cache = 1
                       ELSE c.i = prev.i /\ c.cache = prev.cache + 1

\* C8: for each identifier find_cached_hashes tries the endpoints in list
\* order and contacts none after the first that answers success; when it
\* returns, an identifier is in the result iff some endpoint has it.
C8_ProbeShortCircuit ==
    op.name = "probe" =>
       /\ StopsAtFirstYield
       /\ op_pc \in {"done", "raised"} =>
             SeqToSet(available) =
                {h \in SeqToSet(op.targets) : \E j \in 1..Len(caches) : Has(j, h)}

\* probe([X], [E1, E2]) where only E2 has X: E1, then E2, and the result {X}
C8_Witness ==
    /\ op.name = "probe"
    /\ op_pc = "done"
    /\ op.targets = <<HashA>>
    /\ ~Has(1, HashA)
    /\ Has(2, HashA)
    /\ contacts = <<[i |-> 1, hash |-> HashA, cache |-> 1, ok |-> FALSE],
                    [i |-> 1, hash |-> HashA, cache |-> 2, ok |-> TRUE]>>
    /\ available = <<HashA>>

\* the first endpoint of the list that has a record of h, 0 when none has
FirstWith(h) ==
    IF \E j \in 1..Len(caches) : Has(j, h)
    THEN CHOOSE j \in 1..Len(caches) : Has(j, h) /\ \A l \in 1..(j - 1) : ~Has(l, h)
    ELSE 0

\* the endpoint the record of h in the store was written from
RecordOrigin(h) ==
    CHOOSE j \in 1..Len(caches) :
       narinfo_files[h][1].Sig = <<"cache" \o IntToStr(j) \o ":s">>

\* C9: for each identifier fetch_from_cache contacts no endpoint after the
\* first that yields the record, and the record and the payload the store
\* holds afterwards both come from that endpoint.
C9_FetchSameEndpoint ==
    op.name = "fetch" /\ op_pc # "raised" =>
       /\ StopsAtFirstYield
       /\ op_pc = "done" =>
             \A h \in SeqToSet(op.targets) :
                FirstWith(h) # 0 /\ caches[FirstWith(h)].rec[h] = "good" =>
                   /\ ~IsNone(narinfo_files[h])
                   /\ RecordOrigin(h) = FirstWith(h)
                   /\ LET nar == nar_files[narinfo_files[h][1].URL[1]]
                      IN  nar.kind = "file" => nar.data.from = FirstWith(h)

\* whether the i-th identifier of the batch was tried on endpoint j
Tried(i, j) == \E k \in 1..Len(contacts) : contacts[k].i = i /\ contacts[k].cache = j

\* C10: a failed attempt against an endpoint, and an identifier no endpoint
\* yields, abort neither operation: the operation ends only after every
\* identifier of the batch has been tried on every endpoint, up to the
\* endpoint at which a probe has its answer.
C10_FailuresIsolated ==
    /\ op.name = "fetch" => op_pc # "raised"
    /\ op_pc \in {"done", "raised"} =>
          \A i \in 1..Len(op.targets), j \in 1..Len(caches) :
             \/ Tried(i, j)
             \/ /\ op.name = "probe"
                /\ \E l \in 1..(j - 1) : Tried(i, l) /\ Has(l, op.targets[i])

\* the identifiers the references of a closure name, shorter names apart
ReferencedBy(closure) ==
    {hash_from_name(r).hash : r \in {q \in SeqToSet(AllRefs(closure)) : hash_from_name(q).ok}}

\* C18: with check_refs set find_cached_hashes probes only identifiers that
\* a record of the closure references and that are no keys of it, and
\* returns those of them some endpoint has: no key of the closure is in the
\* result, and no identifier is in it twice.
C18_ProbeMissingRefs ==
    op.name = "probe" /\ op.check_refs =>
       /\ SeqToSet(op.targets) \subseteq ReferencedBy(op.closure) \ Keys(op.closure)
       /\ \A k \in 1..Len(contacts) : contacts[k].hash \in SeqToSet(op.targets)
       /\ SeqToSet(available) \cap Keys(op.closure) = {}
       /\ op_pc = "done" =>
             /\ SeqToSet(available) =
                   {h \in ReferencedBy(op.closure) \ Keys(op.closure) :
                       \E j \in 1..Len(caches) : Has(j, h)}
             /\ Len(available) = Cardinality(SeqToSet(available))

-----------------------------------------------------------------------------
(* The files of a closure: get_closure_files on a Closure built entry by   *)
(* entry                                                                   *)

\* the payload paths the records of these closures name
ClosureUrls == {"nar/p1.xz", "nar/p2"}

\* get_closure_files with every path joined to the store directory
RECURSIVE get_closure_files_joined(_, _)
get_closure_files_joined(cl, relative) ==
    IF cl = <<>> THEN <<>>
    ELSE <<PathJoin(store_dir, Head(cl).key \o ".narinfo"),
           PathJoin(store_dir, Head(cl).value.URL[1])>>
         \o get_closure_files_joined(Tail(cl), relative)

\* lines 336-345
RECURSIVE get_closure_files(_, _)
get_closure_files(cl, relative) ==
    IF cl = <<>> THEN <<>>
    ELSE (IF relative
          THEN <<Head(cl).key \o ".narinfo", Head(cl).value.URL[1]>>
          ELSE <<PathJoin(store_dir, Head(cl).key \o ".narinfo"),
                 PathJoin(store_dir, Head(cl).value.URL[1])>>)
         \o get_closure_files(Tail(cl), relative)

\* closure[key] = info, before the files are listed
ClosureSet ==
    /\ IsNone(closure_files)
    /\ \E key \in Hashes, url \in ClosureUrls :
          LET set == Closure_setitem(closure_arg, key, MkInfo(url, <<>>))
          IN  /\ ~set.raised
              /\ closure_arg' = set.closure
    /\ UNCHANGED <<closure_files, size_old, size_new, copy_counter, copied, output,
                   returned, nops>>
    /\ UNCHANGED <<closureVars, codecVars, indexVars, cacheVars, writeVars>>

GetClosureFiles ==
    /\ IsNone(closure_files)
    /\ \E relative \in BOOLEAN :
          closure_files' = Some([relative |-> relative,
                                 list |-> get_closure_files(closure_arg, relative)])
    /\ UNCHANGED <<closure_arg, size_old, size_new, copy_counter, copied, output,
                   returned, nops>>
    /\ UNCHANGED <<closureVars, codecVars, indexVars, cacheVars, writeVars>>

InitFiles ==
    /\ TxIdle
    /\ WriteIdle
    /\ ClosureIdle
    /\ QueryIdle
    /\ CodecIdle
    /\ IndexIdle
    /\ CacheIdle

NextFiles ==
    \/ ClosureSet
    \/ GetClosureFiles

SpecFiles == InitFiles /\ [][NextFiles]_vars

\* C19: get_closure_files returns, for each record in the order of the
\* closure, the path of its record file and next to it its payload path,
\* relative to the store when relative is set and joined to the store
\* directory otherwise: two entries for each record.
C19_ClosureFiles ==
    ~IsNone(closure_files) =>
       LET list == closure_files[1].list
           prefix == IF closure_files[1].relative THEN "" ELSE store_dir \o "/"
       IN  /\ Len(list) = 2 * Len(closure_arg)
           /\ \A i \in 1..Len(closure_arg) :
                 /\ list[2 * i - 1] = prefix \o closure_arg[i].key \o ".narinfo"
                 /\ list[2 * i] = prefix \o closure_arg[i].value.URL[1]

\* {A: nar/p1.xz, B: nar/p2} with relative set
C19_Witness ==
    /\ closure_arg = <<[key |-> HashA, value |-> MkInfo("nar/p1.xz", <<>>)],
                       [key |-> HashB, value |-> MkInfo("nar/p2", <<>>)]>>
    /\ closure_files = Some([relative |-> TRUE,
                             list |-> <<HashA \o ".narinfo", "nar/p1.xz",
                                        HashB \o ".narinfo", "nar/p2">>])

-----------------------------------------------------------------------------
(* write_narinfo, statement by statement, a reader of the same file and an *)
(* interruption of the writer                                              *)

\* the records written
WriteRecords ==
    {MkInfo("nar/p1", <<>>), MkInfo("nar/p2", <<NameB>>),
     [MkInfo("nar/p3.xz", <<NameA, NameB>>) EXCEPT !.Compression = Some("xz")]}

\* line 216: open(name, 'w') creates the file or cuts it to nothing
WriteOpen ==
    /\ wr_pc = "idle"
    /\ \E info \in WriteRecords : wr_text' = to_str(info)
    /\ wr_prev' = wr_file
    /\ wr_file' = Some("")
    /\ wr_pc' = "open"
    /\ UNCHANGED observed
    /\ UNCHANGED <<closureVars, codecVars, indexVars, cacheVars, txVars>>

\* line 217 and the end of the with block: the text reaches the file
WriteClose ==
    /\ wr_pc = "open"
    /\ wr_file' = Some(wr_text)
    /\ wr_pc' = "closed"
    /\ UNCHANGED <<wr_prev, wr_text, observed>>
    /\ UNCHANGED <<closureVars, codecVars, indexVars, cacheVars, txVars>>

\* the writer dies between the two lines or in the write: nothing of the
\* text, or a part of it, has reached the file
WriteInterrupted ==
    /\ wr_pc = "open"
    /\ \E k \in {0, Len(wr_text) \div 2} : wr_file' = Some(SubSeq(wr_text, 1, k))
    /\ wr_pc' = "interrupted"
    /\ UNCHANGED <<wr_prev, wr_text, observed>>
    /\ UNCHANGED <<closureVars, codecVars, indexVars, cacheVars, txVars>>

\* another process reads the file (read_narinfo, lines 208-209)
ReadConcurrently ==
    /\ Len(observed) < MaxReads
    /\ ~IsNone(wr_file)
    /\ observed' = Append(observed, [pc |-> wr_pc, text |-> wr_file[1]])
    /\ UNCHANGED <<wr_pc, wr_file, wr_prev, wr_text>>
    /\ UNCHANGED <<closureVars, codecVars, indexVars, cacheVars, txVars>>

InitWrite ==
    /\ wr_pc = "idle"
    /\ wr_file \in {None} \cup {Some(to_str(info)) : info \in WriteRecords}
    /\ wr_prev = wr_file
    /\ wr_text = ""
    /\ observed = <<>>
    /\ TxIdle
    /\ ClosureIdle
    /\ QueryIdle
    /\ CodecIdle
    /\ IndexIdle
    /\ CacheIdle

NextWrite ==
    \/ WriteOpen
    \/ WriteClose
    \/ WriteInterrupted
    \/ ReadConcurrently

SpecWrite == InitWrite /\ [][NextWrite]_vars

\* the complete previous content, or the complete new content
OldOrNew(text) == Some(text) = wr_prev \/ (wr_pc # "idle" /\ text = wr_text)

\* C15: write_narinfo is atomic: when a write was interrupted, and whenever
\* a reader reads the file, the record file holds the complete previous
\* content or the complete new content, never an empty or partial record.
C15_WriteAtomic ==
    /\ wr_pc = "interrupted" => OldOrNew(wr_file[1])
    /\ \A k \in 1..Len(observed) : observed[k].pc = wr_pc => OldOrNew(observed[k].text)

-----------------------------------------------------------------------------
(* The operations that write the store: recompress_nar, nix_copy and the   *)
(* nixcopy command, next to fetch_from_cache and the orphan scan           *)

\* the entry at a path, none where nothing was ever written
Lookup(nars, path) == IF path \in DOMAIN nars THEN nars[path] ELSE NoEntry

\* the files with entry written at path
Put(nars, path, entry) ==
    [p \in DOMAIN nars \cup {path} |-> IF p = path THEN entry ELSE nars[p]]

Letter(h) == Chr(h, 1)

\* the length of the NAR of a store path
NarSizeOf(h) == IF h = HashA THEN 40 ELSE IF h = HashB THEN 60 ELSE 80

\* os.path.getsize of a file with this content
ByteSize(data) ==
    LET n == IF data.nar = "" THEN 0 ELSE NarSizeOf(data.nar)
    IN  IF data.fmt = "xz" THEN n \div 4 + 32
        ELSE IF data.fmt = "zstd" THEN n \div 2 + 13
        ELSE n

\* nix hash file --base32 of a file with this content
ContentHash(data) ==
    (IF data.nar = "" THEN "e" ELSE Letter(data.nar))
    \o (IF data.fmt = "xz" THEN "x" ELSE IF data.fmt = "zstd" THEN "z" ELSE "n")

NarHashOf(h) == "sha256:" \o ContentHash([nar |-> h, fmt |-> "none", from |-> 0])

\* the record of h for a payload with this content at url
StoreInfo(h, data, url) ==
    [StorePath |-> Some("/nix/store/" \o h \o "-x"), URL |-> Some(url),
     NarHash |-> Some(NarHashOf(h)), NarSize |-> Some(NarSizeOf(h)),
     Sig |-> <<>>, References |-> <<>>, Compression |-> Some(data.fmt),
     FileHash |-> IF data.fmt = "none" THEN None
                  ELSE Some("sha256:" \o ContentHash(data)),
     FileSize |-> IF data.fmt = "none" THEN None ELSE Some(ByteSize(data)),
     Deriver |-> None, System |-> None, CA |-> None]

\* lines 492-497 and 530: what the first command of the pipe writes to it,
\* the NAR of the file or, when the file is missing or in another format,
\* nothing
Decode(entry, compression) ==
    IF entry.kind = "file" /\ entry.data.fmt = compression THEN entry.data.nar ELSE ""

\* a variant that gives every payload the bare name
ExtNone(compression) == ""

\* lines 510-521: the file name extension of a target compression
Ext(compression) ==
    IF compression = "xz" THEN ".xz" ELSE IF compression = "zstd" THEN ".zstd" ELSE ""

Supported == {"none", "xz", "zstd"}

\* write_narinfo as one step: the text of the record, as a reader gets it
write_narinfo(files, hash, info) ==
    [files EXCEPT ![hash] = Some(NarInfo(to_str(info)).info)]

\* the size of a record taken as its content size
SizeOfContent(info) == info.NarSize[1]

\* lines 503-506 and 549-552: the size a record adds to a total
SizeOf(info) == IF IsNone(info.FileSize) THEN info.NarSize[1] ELSE info.FileSize[1]

\* What the programs recompress_nar runs may do: all work, the pipe of line
\* 530 fails, the hash program is missing (subprocess.run raises), the hash
\* program fails and prints nothing.
RcEnvs == {"ok", "cmd_fails", "hash_raises", "hash_empty"}

\* lines 525-552 for one identifier whose record was read and whose
\* compressions are supported
RecompressRead(files, nars, hash, compression, env, info) ==
    LET old == SizeOf(info)
        tmp_name == PathJoin("nar", hash \o ".tmp")
        stream == IF env = "cmd_fails" THEN ""
                  ELSE Decode(Lookup(nars, info.URL[1]), info.Compression[1])
        tmp == [kind |-> "file", data |-> [nar |-> stream, fmt |-> compression, from |-> 0]]
        with_tmp == Put(nars, tmp_name, tmp)
        hashed == compression # "none"
        file_hash == IF ~hashed THEN Split(info.NarHash[1], ":")[2]
                     ELSE IF env = "hash_empty" THEN ""
                     ELSE ContentHash(tmp.data)
        new_url == PathJoin("nar", file_hash \o ".nar" \o Ext(compression))
        moved == Put(Put(with_tmp, tmp_name, NoEntry), new_url, tmp)
        new_info == [info EXCEPT !.Compression = Some(compression),
                                 !.FileHash = IF hashed THEN Some("sha256:" \o file_hash)
                                              ELSE None,
                                 !.FileSize = IF hashed THEN Some(ByteSize(tmp.data))
                                              ELSE None,
                                 !.URL = Some(new_url)]
        new == SizeOf(new_info)
    IN  IF hashed /\ env = "hash_raises"
        THEN [raised |-> TRUE, failed |-> TRUE, files |-> files, nars |-> with_tmp,
              old |-> old, new |-> 0]
        ELSE [raised |-> FALSE,
              failed |-> stream = "" \/ (hashed /\ env = "hash_empty"),
              files |-> write_narinfo(files, hash, new_info), nars |-> moved,
              old |-> old, new |-> new]

\* lines 489-552: one pass of the loop of recompress_nar
recompress_one(files, nars, hash, compression, env) ==
    LET unread == [raised |-> TRUE, failed |-> TRUE, files |-> files, nars |-> nars,
                   old |-> 0, new |-> 0]
    IN  IF IsNone(files[hash]) THEN unread
        ELSE LET info == files[hash][1]
             IN  IF info.Compression[1] \notin Supported THEN unread
                 ELSE IF compression \notin Supported
                 THEN [unread EXCEPT !.old = SizeOf(info)]
                 ELSE RecompressRead(files, nars, hash, compression, env, info)

\* the lists and the target compressions recompress_nar is called with
RcBatches == {<<HashA>>, <<HashA, HashB>>}

RcTargets == {"none", "xz", "bzip2"}

\* lines 483-486
RcStart ==
    /\ op_pc = "idle"
    /\ nops < MaxOps
    /\ \E hashes \in RcBatches, compression \in RcTargets :
          op' = [name |-> "recompress", targets |-> hashes, check_refs |-> FALSE,
                 raises |-> FALSE, closure |-> <<>>, compression |-> compression,
                 before |-> narinfo_files, before_nars |-> nar_files, log |-> <<>>]
    /\ op_pc' = "run"
    /\ op_i' = 1
    /\ size_old' = 0
    /\ size_new' = 0
    /\ nops' = nops + 1
    /\ UNCHANGED <<caches, op_j, found, available, not_found, contacts>>
    /\ UNCHANGED <<closure_arg, closure_files, copy_counter, copied, output, returned>>
    /\ UNCHANGED <<narinfo_files, nar_files, by_hash, by_url, orphans>>
    /\ UNCHANGED <<queryVars, codecVars, writeVars>>

\* one identifier of the batch, and the return after the last
RcIdentifier ==
    /\ op_pc = "run"
    /\ op.name = "recompress"
    /\ \E env \in RcEnvs :
       \E got \in {recompress_one(narinfo_files, nar_files, op.targets[op_i],
                                   op.compression, env)} :
          LET last == op_i = Len(op.targets)
          IN  /\ narinfo_files' = got.files
              /\ nar_files' = got.nars
              /\ size_old' = size_old + got.old
              /\ size_new' = size_new + got.new
              /\ op' = [op EXCEPT !.log = Append(@, [hash |-> op.targets[op_i],
                                                      failed |-> got.failed,
                                                      raised |-> got.raised])]
              /\ op_i' = IF got.raised THEN op_i ELSE op_i + 1
              /\ op_pc' = IF got.raised THEN "raised" ELSE IF last THEN "done" ELSE "run"
              /\ returned' = IF ~got.raised /\ last
                             THEN Append(returned,
                                         [op |-> "recompress", n |-> nops,
                                          targets |-> op.targets,
                                          compression |-> op.compression,
                                          value |-> <<size_old', size_new'>>])
                             ELSE returned
    /\ UNCHANGED <<caches, op_j, found, available, not_found, contacts>>
    /\ UNCHANGED <<closure_arg, closure_files, copy_counter, copied, output, nops>>
    /\ UNCHANGED <<by_hash, by_url, orphans>>
    /\ UNCHANGED <<queryVars, codecVars, writeVars>>

\* the call is over, by a return or by an exception: the next may start
OpReturn ==
    /\ op_pc \in {"done", "raised"}
    /\ op_pc' = "idle"
    /\ op' = NoOp
    /\ op_i' = 1
    /\ op_j' = 1
    /\ found' = FALSE
    /\ available' = <<>>
    /\ not_found' = <<>>
    /\ contacts' = <<>>
    /\ UNCHANGED caches
    /\ UNCHANGED txVars
    /\ UNCHANGED <<narinfo_files, nar_files, by_hash, by_url, orphans>>
    /\ UNCHANGED <<queryVars, codecVars, writeVars>>

\* the payload a store holds for h in a format, under the name nix_copy and
\* recompress_nar give it
PayloadOf(h, fmt) == [nar |-> h, fmt |-> fmt, from |-> 0]

UrlOf(data) == PathJoin("nar", ContentHash(data) \o ".nar" \o Ext(data.fmt))

\* the states a record of the store may be in: none, or a record of a
\* payload in a format, or such a record with a compression tag nartool
\* does not know
RecordStates == {"absent", "none", "xz", "bzip2"}

RecordIn(h, state) ==
    IF state = "absent" THEN None
    ELSE IF state = "bzip2"
    THEN Some([StoreInfo(h, PayloadOf(h, "none"), "nar/p3") EXCEPT
                  !.Compression = Some("bzip2")])
    ELSE Some(StoreInfo(h, PayloadOf(h, state), UrlOf(PayloadOf(h, state))))

\* the stores recompress_nar runs on: a record of A with its payload there
\* or missing, and for B a record with its payload, a record with an
\* unknown compression tag, or none
InitRecompress ==
    /\ \E st \in [{HashA, HashB} -> RecordStates], there \in [{HashA, HashB} -> BOOLEAN] :
          /\ narinfo_files = [h \in Hashes |-> IF h = HashC THEN None ELSE RecordIn(h, st[h])]
          /\ nar_files = [p \in PayloadPaths \cup
                                {UrlOf(PayloadOf(h, f)) : h \in {HashA, HashB}, f \in {"none", "xz"}} |->
                IF \E h \in {HashA, HashB} :
                      /\ there[h] /\ st[h] \in {"none", "xz"}
                      /\ p = UrlOf(PayloadOf(h, st[h]))
                THEN [kind |-> "file",
                      data |-> PayloadOf(CHOOSE h \in {HashA, HashB} :
                                            st[h] \in {"none", "xz"}
                                            /\ p = UrlOf(PayloadOf(h, st[h])),
                                         IF p = UrlOf(PayloadOf(HashA, "xz"))
                                            \/ p = UrlOf(PayloadOf(HashB, "xz"))
                                         THEN "xz" ELSE "none")]
                ELSE NoEntry]
          /\ st[HashA] \in {"none", "xz"}
          /\ st[HashB] \in {"absent", "none", "bzip2"}
          /\ there[HashB] = (st[HashB] = "none")
    /\ by_hash = None
    /\ by_url = None
    /\ orphans = NoOrphans
    /\ CacheIdle
    /\ TxIdle
    /\ WriteIdle
    /\ QueryIdle
    /\ CodecIdle

NextRecompress ==
    \/ RcStart
    \/ RcIdentifier
    \/ OpReturn

SpecRecompress == InitRecompress /\ [][NextRecompress]_vars

\* whether the record of h cannot be recompressed at all
Unusable(h) ==
    IsNone(narinfo_files[h]) \/ narinfo_files[h][1].Compression[1] \notin Supported

\* C11: in recompress_nar a failure on one identifier (a compression tag
\* that is not supported, a record that cannot be read) ends the work on
\* that identifier only: the call is given up on such an identifier only
\* when it is the first of the batch, and else goes on to its return.
C11_FailurePerIdentifier ==
    /\ op.name = "recompress"
    /\ op_pc = "raised"
    /\ Unusable(op.targets[op_i])
    => op_i = 1

TmpNames == {PathJoin("nar", h \o ".tmp") : h \in Hashes}

\* C12: when a step of recompressing an identifier fails (the payload is
\* missing, a command fails, the hash program fails), the record files and
\* every file at a final payload path stay as they were: at most a temp
\* file is left.
C12_FailedStepLeavesStore ==
    [][(/\ op.name = "recompress"
        /\ op_pc = "run"
        /\ op'.name = "recompress"
        /\ Len(op'.log) = Len(op.log) + 1
        /\ op'.log[Len(op'.log)].failed)
       => /\ narinfo_files' = narinfo_files
          /\ \A p \in (DOMAIN nar_files' \cup DOMAIN nar_files) \ TmpNames :
                Lookup(nar_files', p) = Lookup(nar_files, p)]_vars

\* the size the record of a file adds to a total: the transport size when
\* the record has one, else the content size
TotalOf(recs, hashes) ==
    LET size(h) == IF IsNone(recs[h][1].FileSize) THEN recs[h][1].NarSize[1]
                   ELSE recs[h][1].FileSize[1]
        sum[k \in 0..Len(hashes)] == IF k = 0 THEN 0 ELSE sum[k - 1] + size(hashes[k])
    IN  sum[Len(hashes)]

\* C13: recompress_nar returns the total of the sizes of the records of the
\* batch as they were before, and the total as they are after, a new
\* transport size being the length of the payload written; run again with
\* the same target, its first total is the second total of the run before.
C13_SizeTotals ==
    /\ op.name = "recompress" /\ op_pc = "done" =>
          LET r == returned[Len(returned)]
          IN  /\ r.value[1] = TotalOf(op.before, op.targets)
              /\ r.value[2] = TotalOf(narinfo_files, op.targets)
              /\ \A k \in 1..Len(op.log) :
                    LET info == narinfo_files[op.log[k].hash][1]
                    IN  ~op.log[k].failed /\ op.compression # "none" =>
                           /\ Lookup(nar_files, info.URL[1]).kind = "file"
                           /\ info.FileSize = Some(ByteSize(Lookup(nar_files, info.URL[1]).data))
    /\ \A k \in 1..(Len(returned) - 1) :
          /\ returned[k].op = "recompress"
          /\ returned[k + 1].op = "recompress"
          /\ returned[k + 1].n = returned[k].n + 1
          /\ returned[k + 1].targets = returned[k].targets
          => returned[k + 1].value[1] = returned[k].value[2]

\* A and B from "none" to "xz", and from "xz" to "xz" again
C13_Witness ==
    /\ op_pc = "done"
    /\ Len(returned) = 2
    /\ returned[1] = [op |-> "recompress", n |-> 1, targets |-> <<HashA, HashB>>,
                       compression |-> "xz", value |-> <<100, 89>>]
    /\ returned[2] = [op |-> "recompress", n |-> 2, targets |-> <<HashA, HashB>>,
                       compression |-> "xz", value |-> <<89, 89>>]
    /\ \A k \in 1..2 : ~op.log[k].failed

-----------------------------------------------------------------------------
(* nix_copy and the nixcopy command *)

\* NixStore.narinfo: the record of a path of the nix store, without URL
NixInfo(h) ==
    [StoreInfo(h, PayloadOf(h, "none"), "") EXCEPT !.Deriver = Some("/nix/store/d.drv")]

\* NixStore.get_closure: the closure of the path given to the command
NixClosure(hashes) == [i \in 1..Len(hashes) |-> [key |-> hashes[i], value |-> NixInfo(hashes[i])]]

\* the closures the command is run on
CopyClosures == {NixClosure(<<HashA, HashB>>), NixClosure(<<HashA, HashB, HashC>>)}

CopyTargets == {"none", "xz", "bzip2"}

\* What the programs nix_copy runs may do: all work, nix nar dump-path
\* fails and prints nothing, nix is missing (subprocess.run raises).
CopyEnvs == {"ok", "dump_empty", "nix_missing"}

\* find_cached_hashes(closure, cache_urls) as the command uses it: the keys
\* some cache answers for, in the order of the closure
RECURSIVE cached_hashes(_)
cached_hashes(cl) ==
    IF cl = <<>> THEN <<>>
    ELSE (IF \E j \in 1..Len(caches) : ProbeSucceeds(caches[j], Head(cl).key)
          THEN <<Head(cl).key>> ELSE <<>>)
         \o cached_hashes(Tail(cl))

\* cli.py lines 151-153: closure.pop(hash) for every cached hash
Popped(cl, hashes) == SelectSeq(cl, LAMBDA entry : entry.key \notin SeqToSet(hashes))

\* a variant of the test of line 566 that never finds the record file
has_narinfo_never(files, hash) == FALSE

\* line 566: os.path.isfile(self.get_narinfo_name(hash))
has_narinfo(files, hash) == ~IsNone(files[hash])

\* lines 566-598 for one member of the closure: [raised, copied, files,
\* nars, info]
copy_member(files, nars, hash, info, compression, env) ==
    LET nar_url == PathJoin("nar", SubSeq(info.NarHash[1], 8, Len(info.NarHash[1])) \o ".nar")
        opened == Put(nars, nar_url, [kind |-> "file", data |-> NoData])
        stream == IF env = "dump_empty" THEN "" ELSE hash
        dumped == Put(nars, nar_url, [kind |-> "file", data |-> PayloadOf(stream, "none")])
        zipped_url == nar_url \o Ext(compression)
        zipped == IF compression = "none" THEN dumped
                  ELSE IF Lookup(dumped, zipped_url).kind = "file" THEN dumped
                  ELSE Put(Put(dumped, nar_url, NoEntry), zipped_url,
                           [kind |-> "file", data |-> PayloadOf(stream, compression)])
        data == Lookup(zipped, zipped_url).data
        new_info == [info EXCEPT !.URL = Some(zipped_url),
                                 !.Compression = IF compression = "none" THEN @
                                                 ELSE Some(compression),
                                 !.FileHash = IF compression = "none" THEN @
                                              ELSE Some("sha256:" \o ContentHash(data)),
                                 !.FileSize = IF compression = "none" THEN @
                                              ELSE Some(ByteSize(data))]
    IN  IF has_narinfo(files, hash)
        THEN [raised |-> FALSE, copied |-> FALSE, files |-> files, nars |-> nars, info |-> info]
        ELSE IF env = "nix_missing"
        THEN [raised |-> TRUE, copied |-> FALSE, files |-> files, nars |-> opened,
              info |-> [info EXCEPT !.URL = Some(nar_url)]]
        ELSE IF compression \notin Supported
        THEN [raised |-> TRUE, copied |-> FALSE, files |-> files, nars |-> dumped,
              info |-> [info EXCEPT !.URL = Some(nar_url)]]
        ELSE [raised |-> FALSE, copied |-> TRUE,
              files |-> write_narinfo(files, hash, new_info), nars |-> zipped,
              info |-> new_info]

\* cli.py lines 156-161, after nix_copy has returned: the keys of the
\* closure go to the output file
OutputOf(cl) == Some([i \in 1..Len(cl) |-> cl[i].key])

\* cli.py lines 145-154 and store.py lines 559-562
CopyStart ==
    /\ op_pc = "idle"
    /\ nops < MaxOps
    /\ \E cl \in CopyClosures, skipcached \in BOOLEAN, compression \in CopyTargets :
          LET kept == IF skipcached THEN Popped(cl, cached_hashes(cl)) ELSE cl
          IN  /\ op' = [name |-> "nix_copy", targets |-> <<>>, check_refs |-> FALSE,
                        raises |-> FALSE, closure |-> cl, compression |-> compression,
                        skipcached |-> skipcached, before |-> narinfo_files,
                        before_nars |-> nar_files]
              /\ closure_arg' = kept
              /\ op_pc' = IF kept = <<>> THEN "done" ELSE "run"
              /\ returned' = IF kept = <<>>
                             THEN Append(returned, [op |-> "nix_copy", n |-> nops + 1,
                                                    keys |-> <<>>, value |-> 0])
                             ELSE returned
              /\ output' = IF kept = <<>> THEN OutputOf(kept) ELSE None
    /\ op_i' = 1
    /\ copy_counter' = 0
    /\ copied' = <<>>
    /\ nops' = nops + 1
    /\ UNCHANGED <<caches, op_j, found, available, not_found, contacts>>
    /\ UNCHANGED <<closure_files, size_old, size_new>>
    /\ UNCHANGED <<narinfo_files, nar_files, by_hash, by_url, orphans>>
    /\ UNCHANGED <<queryVars, codecVars, writeVars>>

\* one member of the closure, and after the last the return of nix_copy
\* and the end of the command
CopyMember ==
    /\ op_pc = "run"
    /\ op.name = "nix_copy"
    /\ \E env \in CopyEnvs :
       \E got \in {copy_member(narinfo_files, nar_files, closure_arg[op_i].key,
                                closure_arg[op_i].value, op.compression, env)} :
          LET last == op_i = Len(closure_arg)
              count == IF got.copied THEN copy_counter + 1 ELSE copy_counter
          IN  /\ narinfo_files' = got.files
              /\ nar_files' = got.nars
              /\ closure_arg' = [closure_arg EXCEPT ![op_i].value = got.info]
              /\ copy_counter' = count
              /\ copied' = IF got.copied THEN Append(copied, closure_arg[op_i].key)
                           ELSE copied
              /\ op_i' = IF got.raised THEN op_i ELSE op_i + 1
              /\ op_pc' = IF got.raised THEN "raised" ELSE IF last THEN "done" ELSE "run"
              /\ returned' = IF ~got.raised /\ last
                             THEN Append(returned,
                                         [op |-> "nix_copy", n |-> nops,
                                          keys |-> [i \in 1..Len(closure_arg) |->
                                                       closure_arg[i].key],
                                          value |-> count])
                             ELSE returned
              /\ output' = IF ~got.raised /\ last THEN OutputOf(closure_arg) ELSE output
    /\ UNCHANGED <<caches, op, op_j, found, available, not_found, contacts>>
    /\ UNCHANGED <<closure_files, size_old, size_new, nops>>
    /\ UNCHANGED <<by_hash, by_url, orphans>>
    /\ UNCHANGED <<queryVars, codecVars, writeVars>>

\* the caches of the command: a local mirror that may have B, and a cache
\* that does not answer
CopyCaches ==
    {<<[url |-> "/mirror1", nar |-> "ok",
        rec |-> [h \in Hashes |-> IF h = HashB THEN b ELSE "absent"]],
       [url |-> "https://cache2", nar |-> "error",
        rec |-> [h \in Hashes |-> "error"]]>> : b \in {"absent", "good"}}

\* the stores the command copies to: A and B each there, with record and
\* payload, or not
InitCopy ==
    /\ \E there \in [{HashA, HashB} -> BOOLEAN] :
          /\ narinfo_files = [h \in Hashes |->
                IF h # HashC /\ there[h] THEN RecordIn(h, "xz") ELSE None]
          /\ nar_files = [p \in PayloadPaths \cup
                                {UrlOf(PayloadOf(h, "xz")) : h \in {HashA, HashB}} |->
                IF \E h \in {HashA, HashB} : there[h] /\ p = UrlOf(PayloadOf(h, "xz"))
                THEN [kind |-> "file",
                      data |-> PayloadOf(CHOOSE h \in {HashA, HashB} :
                                            p = UrlOf(PayloadOf(h, "xz")), "xz")]
                ELSE NoEntry]
    /\ caches \in CopyCaches
    /\ op = NoOp
    /\ op_pc = "idle"
    /\ op_i = 1
    /\ op_j = 1
    /\ found = FALSE
    /\ available = <<>>
    /\ not_found = <<>>
    /\ contacts = <<>>
    /\ by_hash = None
    /\ by_url = None
    /\ orphans = NoOrphans
    /\ TxIdle
    /\ WriteIdle
    /\ QueryIdle
    /\ CodecIdle

NextCopy ==
    \/ CopyStart
    \/ CopyMember
    \/ OpReturn

SpecCopy == InitCopy /\ [][NextCopy]_vars

\* the keys of the closure nix_copy is working on
CopyKeys == [i \in 1..Len(closure_arg) |-> closure_arg[i].key]

\* nix_copy has returned to the command
CopyReturned == op.name = "nix_copy" /\ op_pc = "done"

\* the run that has just returned follows a returned run on the same closure
SecondRun ==
    /\ Len(returned) >= 2
    /\ returned[Len(returned) - 1].op = "nix_copy"
    /\ returned[Len(returned) - 1].n + 1 = returned[Len(returned)].n
    /\ returned[Len(returned) - 1].keys = returned[Len(returned)].keys

\* C14: nix_copy returns the number of closure members that had no record
\* file before the call, leaves the record and the payload of every
\* identifier that had one as they were, and a second run on the same
\* closure returns 0 and changes nothing.
C14_CopyIdempotent ==
    CopyReturned =>
        /\ returned[Len(returned)].value =
              Cardinality({i \in 1..Len(closure_arg) : IsNone(op.before[CopyKeys[i]])})
        /\ \A h \in Hashes : ~IsNone(op.before[h]) =>
              /\ narinfo_files[h] = op.before[h]
              /\ nar_files[op.before[h][1].URL[1]] = op.before_nars[op.before[h][1].URL[1]]
        /\ SecondRun =>
              /\ returned[Len(returned)].value = 0
              /\ narinfo_files = op.before
              /\ nar_files = op.before_nars

\* a run that skipped A and copied B, and then a second run that copied
\* nothing
C14_Witness ==
    /\ CopyReturned
    /\ SecondRun
    /\ CopyKeys = <<HashA, HashB>>
    /\ returned[1].value = 1
    /\ returned[2].value = 0
    /\ copied = <<>>
    /\ ~IsNone(narinfo_files[HashB])

\* C17: when the nixcopy command has written its output file, the list in
\* it is the list of the identifiers nix_copy copied in this run.
C17_OutputIsCopied ==
    (CopyReturned /\ ~IsNone(output)) => output = Some(copied)

-----------------------------------------------------------------------------
(* One NarStore instance over its life: fetch_from_cache, recompress_nar,  *)
(* nix_copy and find_orphaned_nar_files one after the other                *)

\* find_orphaned_nar_files() between two other operations
ScanNar ==
    /\ op_pc = "idle"
    /\ nops < MaxOps
    /\ find_orphaned_nar_files("nar")
    /\ nops' = nops + 1
    /\ UNCHANGED <<closure_arg, closure_files, size_old, size_new, copy_counter, copied,
                   output, returned>>
    /\ UNCHANGED <<queryVars, codecVars, cacheVars, writeVars>>

\* the store at the start: A with record and payload, B with them or
\* without, and a local mirror that has B
InitStore ==
    /\ InitCopy
    /\ ~IsNone(narinfo_files[HashA])
    /\ caches[1].rec[HashB] = "good"

NextStore ==
    \/ FetchStart
    \/ FetchAttempt
    \/ RcStart
    \/ RcIdentifier
    \/ CopyStart
    \/ CopyMember
    \/ OpReturn
    \/ ScanNar

SpecStore == InitStore /\ [][NextStore]_vars

\* C16: no operation deletes a record file, and the record of an identifier
\* that has one changes only in a step of recompress_nar.
C16_RecordLifecycle ==
    [][\A h \in Hashes : ~IsNone(narinfo_files[h]) =>
          /\ ~IsNone(narinfo_files'[h])
          /\ narinfo_files'[h] # narinfo_files[h] => op.name = "recompress"]_vars

\* the payload files of nar/ that no record on disk names, after the step
OrphansOnDisk ==
    {PathJoin(store_dir, p) : p \in {q \in DOMAIN nar_files' :
        /\ nar_files'[q].kind = "file"
        /\ q = PathJoin("nar", basename(q))
        /\ q \notin {narinfo_files'[h][1].URL[1] :
                        h \in {k \in Hashes : ~IsNone(narinfo_files'[k])}}}}

\* C20: a scan of find_orphaned_nar_files that ends without an exception
\* reports a payload file iff no record on disk names it, whatever was
\* written since the index was built.
C20_IndexNeverStale ==
    [][(orphans'.nar # orphans.nar /\ ~orphans'.nar.raised) =>
          SeqToSet(orphans'.nar.paths) = OrphansOnDisk]_vars

-----------------------------------------------------------------------------
(* The record recompress_nar leaves *)

\* the identifiers of the running batch whose pass of the loop came to its
\* end without an exception
Recompressed ==
    IF op.name = "recompress"
    THEN {op.log[k].hash : k \in {j \in 1..Len(op.log) : ~op.log[j].raised}}
    ELSE {}

\* the part of a hash field after "sha256:"
HashPart(field) == SubSeq(field, 8, Len(field))

\* C21: once recompress_nar is through with an identifier, its record on
\* disk has the target as Compression, has FileHash and FileSize exactly
\* when the target is not none, names nar/<hash>.nar plus the extension of
\* the target, <hash> being the new FileHash (the NarHash for none), a file
\* is at that URL, and the file at the URL the record had before is still
\* there; when no command failed the FileHash is the hash of that file.
C21_RecompressedRecord ==
    \A h \in Recompressed :
        LET t == op.compression
            ext == IF t = "xz" THEN ".xz" ELSE IF t = "zstd" THEN ".zstd" ELSE ""
            old_url == op.before[h][1].URL[1]
        IN  /\ ~IsNone(narinfo_files[h])
            /\ LET info == narinfo_files[h][1]
               IN  /\ info.Compression = Some(t)
                   /\ IsNone(info.FileHash) <=> t = "none"
                   /\ IsNone(info.FileSize) <=> t = "none"
                   /\ info.URL = Some("nar/" \o (IF t = "none" THEN HashPart(info.NarHash[1])
                                                 ELSE HashPart(info.FileHash[1]))
                                             \o ".nar" \o ext)
                   /\ Lookup(nar_files, info.URL[1]).kind = "file"
                   /\ (t # "none" /\ \A k \in 1..Len(op.log) : ~op.log[k].failed) =>
                          info.FileHash =
                             Some("sha256:" \o ContentHash(Lookup(nar_files, info.URL[1]).data))
            /\ Lookup(op.before_nars, old_url).kind = "file" =>
                   Lookup(nar_files, old_url).kind = "file"

\* A and B, both uncompressed, have been recompressed to xz
C21_Witness ==
    /\ op.name = "recompress"
    /\ op_pc = "done"
    /\ op.compression = "xz"
    /\ Recompressed = {HashA, HashB}
    /\ \A k \in 1..Len(op.log) : ~op.log[k].failed
    /\ op.before[HashA][1].URL = Some("nar/an.nar")
    /\ narinfo_files[HashA][1].URL = Some("nar/ax.nar.xz")
    /\ Lookup(nar_files, "nar/an.nar").kind = "file"
    /\ Lookup(nar_files, "nar/ax.nar.xz").kind = "file"

-----------------------------------------------------------------------------
(* recompress_nar on records that carry signatures, references and a       *)
(* deriver                                                                 *)

\* the signature lists of the records: none, one, two
SigLists == {<<>>, <<"key-1:s">>, <<"key-1:s", "key-2:t">>}

\* a record of the store as a cache serves it
Signed(info, sigs) ==
    [info EXCEPT !.Sig = sigs,
                 !.References = <<NameA, NameB>>,
                 !.Deriver = Some("d.drv")]

\* the stores: A, B and C with record and payload, A uncompressed or xz
InitSigned ==
    /\ \E fmt \in {"none", "xz"}, sigs \in SigLists :
          LET fmts == [h \in Hashes |-> IF h = HashA THEN fmt ELSE "none"]
          IN  /\ narinfo_files = [h \in Hashes |->
                    Some(Signed(RecordIn(h, fmts[h])[1],
                                IF h = HashB THEN <<>> ELSE sigs))]
              /\ nar_files = [p \in PayloadPaths \cup
                                    {UrlOf(PayloadOf(h, fmts[h])) : h \in Hashes} |->
                    IF \E h \in Hashes : p = UrlOf(PayloadOf(h, fmts[h]))
                    THEN [kind |-> "file",
                          data |-> PayloadOf(CHOOSE h \in Hashes :
                                                p = UrlOf(PayloadOf(h, fmts[h])),
                                             IF p = UrlOf(PayloadOf(HashA, fmt))
                                             THEN fmt ELSE "none")]
                    ELSE NoEntry]
    /\ by_hash = None
    /\ by_url = None
    /\ orphans = NoOrphans
    /\ CacheIdle
    /\ TxIdle
    /\ WriteIdle
    /\ QueryIdle
    /\ CodecIdle

SpecSigned == InitSigned /\ [][NextRecompress]_vars

\* the fields recompress_nar is to leave alone
Kept(info) ==
    <<info.NarHash, info.NarSize, info.StorePath, info.Sig, info.References, info.Deriver>>

\* C22: while and after recompress_nar runs, the NarHash, NarSize,
\* StorePath, signatures, references and deriver of every record read back
\* are those read before the call, and the record of an identifier outside
\* the batch is as it was.
C22_RecompressFrame ==
    op.name = "recompress" =>
        \A h \in Hashes : ~IsNone(op.before[h]) =>
            /\ ~IsNone(narinfo_files[h])
            /\ Kept(narinfo_files[h][1]) = Kept(op.before[h][1])
            /\ h \notin SeqToSet(op.targets) => narinfo_files[h] = op.before[h]

-----------------------------------------------------------------------------
(* Closure: construction from a mapping and insertion, with keys and       *)
(* values of every kind                                                    *)

\* the longest mapping a Closure is constructed from
MaxMapping == 2

\* keys a caller may use: an identifier, a store name that starts with an
\* identifier, a short name, a token with a letter outside the alphabet
CandidateKeys == {HashA, NameA, ShortName, Rep("e", hash_len)}

\* values a caller may use, with their Python type
CandidateValues ==
    {[type |-> "NarInfo", info |-> MkInfo("nar/p1", <<>>)],
     [type |-> "str", info |-> EmptyInfo]}

\* lines 117-122: type(value) != NarInfo raises
value_is_valid(value) == value.type = "NarInfo"

\* lines 137-141: __setitem__ with both tests
Closure_setitem_checked(closure, key, value) ==
    IF ~nix_hash_is_valid(key) \/ ~value_is_valid(value)
    THEN [raised |-> TRUE, closure |-> closure]
    ELSE Closure_setitem(closure, key, value)

\* the items of a dict: no key twice
Mappings ==
    {m \in UNION {[1..k -> [key : CandidateKeys, value : CandidateValues]] :
                     k \in 0..MaxMapping} :
        \A i, j \in 1..Len(m) : m[i].key = m[j].key => i = j}

\* lines 124-135: every item is tested, then the dict is filled
Closure_init(mapping) ==
    IF \E i \in 1..Len(mapping) :
          ~nix_hash_is_valid(mapping[i].key) \/ ~value_is_valid(mapping[i].value)
    THEN [raised |-> TRUE, closure |-> <<>>]
    ELSE [raised |-> FALSE, closure |-> mapping]

\* closure = Closure(mapping): an exception leaves the name bound as before
ClosureNew ==
    /\ \E mapping \in Mappings :
       \E got \in {Closure_init(mapping)} :
          /\ op' = [name |-> "init", targets |-> <<>>, check_refs |-> FALSE,
                    raises |-> got.raised, closure |-> closure_arg,
                    key |-> "", value |-> [type |-> "none", info |-> EmptyInfo],
                    mapping |-> mapping]
          /\ closure_arg' = IF got.raised THEN closure_arg ELSE got.closure
    /\ UNCHANGED <<caches, op_pc, op_i, op_j, found, available, not_found, contacts>>
    /\ UNCHANGED <<closure_files, size_old, size_new, copy_counter, copied, output,
                   returned, nops>>
    /\ UNCHANGED <<closureVars, codecVars, indexVars, writeVars>>

\* closure[key] = value
ClosureInsert ==
    /\ \E key \in CandidateKeys, value \in CandidateValues :
       \E got \in {Closure_setitem_checked(closure_arg, key, value)} :
          /\ op' = [name |-> "setitem", targets |-> <<>>, check_refs |-> FALSE,
                    raises |-> got.raised, closure |-> closure_arg,
                    key |-> key, value |-> value, mapping |-> <<>>]
          /\ closure_arg' = got.closure
    /\ UNCHANGED <<caches, op_pc, op_i, op_j, found, available, not_found, contacts>>
    /\ UNCHANGED <<closure_files, size_old, size_new, copy_counter, copied, output,
                   returned, nops>>
    /\ UNCHANGED <<closureVars, codecVars, indexVars, writeVars>>

InitInsert ==
    /\ ClosureIdle
    /\ CodecIdle
    /\ IndexIdle
    /\ CacheIdle
    /\ TxIdle
    /\ WriteIdle

NextInsert ==
    \/ ClosureNew
    \/ ClosureInsert

SpecInsert == InitInsert /\ [][NextInsert]_vars

\* an identifier: 32 characters, all of the alphabet
IsIdentifier(key) ==
    /\ Len(key) = 32
    /\ \A i \in 1..Len(key) : Chr(key, i) \in NixAlphabet

\* C23: every key of a Closure is an identifier of 32 characters of the
\* alphabet and every value a NarInfo, and an insertion whose key is no
\* identifier or whose value is no NarInfo raises and leaves the Closure
\* as it was.
C23_ClosureValidated ==
    /\ \A i \in 1..Len(closure_arg) :
          /\ IsIdentifier(closure_arg[i].key)
          /\ closure_arg[i].value.type = "NarInfo"
    /\ (/\ op.name = "setitem"
        /\ ~IsIdentifier(op.key) \/ op.value.type # "NarInfo")
       => op.raises /\ closure_arg = op.closure

-----------------------------------------------------------------------------
(* The records fetch_from_cache leaves *)

\* C24: when fetch_from_cache has returned, every identifier of the batch
\* that has a record file in the store has, in the store, the payload file
\* that record names.
C24_FetchNoOrphanRecord ==
    (op.name = "fetch" /\ op_pc = "done") =>
        \A i \in 1..Len(op.targets) :
            LET rec == narinfo_files[op.targets[i]]
            IN  ~IsNone(rec) => /\ ~IsNone(rec[1].URL)
                                /\ isfile(rec[1].URL[1])

====
